---- MODULE Spec2Model ----
(***************************************************************************)
(* Lookup-table generation and interpolated lookup of the solar tracker    *)
(* (rust/src/lookup_table.rs, rust/src/angles.rs, rust/src/types.rs).      *)
(*                                                                         *)
(* Representation of numbers                                               *)
(*   i32   : an integer; additions and subtractions that can leave the    *)
(*           32-bit range report the overflow and the wrapped value.       *)
(*   f64 minutes (equation of time, correction, half day length): an      *)
(*           integer count of 1/Den minute.  Such values and their sums    *)
(*           are exact in f64, so this part of the arithmetic is exact.    *)
(*   f64 angles and fractions: a binary floating-point number m * 2^e     *)
(*           with a MantissaBits-bit mantissa and round-to-nearest-even,   *)
(*           the arithmetic of f64 at a reduced width.                     *)
(*   Option<T> : <<>> is None, <<v>> is Some(v).                           *)
(* The trigonometric closed forms of angles.rs cannot be evaluated here;   *)
(* what they return is an input of the model (the tables equation_of_time, *)
(* CosH and HalfDayMinutes, and the stand-ins for the angles).             *)
(***************************************************************************)
EXTENDS Integers, Sequences, FiniteSets, TLC

\* f64 minute quantities are counted in 1/Den minute.
Den == 2
\* Mantissa width of the reduced-width model of f64.
MantissaBits == 12

I32Max == 2147483647
I32Min == (-2147483647) - 1

None == <<>>
Some(v) == <<v>>
IsSome(o) == o /= <<>>
Unwrap(o) == o[1]

Max(a, b) == IF a >= b THEN a ELSE b
Min(a, b) == IF a <= b THEN a ELSE b
Abs(a) == IF a < 0 THEN -a ELSE a
Sgn(a) == IF a < 0 THEN -1 ELSE IF a > 0 THEN 1 ELSE 0

(***************************************************************************)
(* i32 arithmetic.  Each operation yields [val, ovf]: the wrapped result   *)
(* and whether the exact result left the i32 range (a panic in a build     *)
(* with overflow checks, the wrapped value otherwise).                     *)
(***************************************************************************)
\* a + b for i32 a, b, computed without leaving the 32-bit range.
AddI32(a, b) ==
    IF b > 0 /\ a > I32Max - b
    THEN [val |-> (a - I32Max - 1) + (b - I32Max - 1), ovf |-> TRUE]
    ELSE IF b < 0 /\ a < I32Min - b
    THEN [val |-> (a + I32Max + 1) + (b + I32Max + 1), ovf |-> TRUE]
    ELSE [val |-> a + b, ovf |-> FALSE]

\* a - b for i32 a, b.
SubI32(a, b) ==
    IF b = I32Min
    THEN (IF a >= 0 THEN [val |-> (a - I32Max - 1), ovf |-> TRUE]
                    ELSE [val |-> (a + I32Max) + 1, ovf |-> FALSE])
    ELSE AddI32(a, -b)

\* Rust's integer division truncates toward zero (b > 0 here).
TruncDiv(a, b) == IF a >= 0 THEN a \div b ELSE -((-a) \div b)

\* `x as i32` for an f64 x given in 1/Den: truncation toward zero.
F64ToI32(xU) == TruncDiv(xU, Den)

(***************************************************************************)
(* f64 at reduced width.  A value is [m, e], standing for m * 2^e, with    *)
(* m = 0 (and e = 0), or 2^(MantissaBits-1) <= |m| < 2^MantissaBits.  Every *)
(* operation returns the exact result rounded to the nearest representable *)
(* value, ties to the even mantissa, as IEEE 754 does.                     *)
(***************************************************************************)
RECURSIVE BitLen(_)
BitLen(a) == IF a = 0 THEN 0 ELSE 1 + BitLen(a \div 2)

FZero == [m |-> 0, e |-> 0]
\* The outcome of 0.0 / 0.0 (never equal to a number of the model).
FNaN == [m |-> 0, e |-> 1]

\* m * 2^e rounded to MantissaBits bits.
FRound(m, e) ==
    IF m = 0 THEN FZero
    ELSE LET a == Abs(m)
             s == Sgn(m)
             n == BitLen(a)
         IN  IF n <= MantissaBits
             THEN [m |-> s * a * 2^(MantissaBits - n), e |-> e - (MantissaBits - n)]
             ELSE LET k    == n - MantissaBits
                      q    == a \div 2^k
                      r    == a % 2^k
                      half == 2^(k - 1)
                      q1   == IF r > half \/ (r = half /\ q % 2 = 1) THEN q + 1 ELSE q
                  IN  IF q1 = 2^MantissaBits
                      THEN [m |-> s * 2^(MantissaBits - 1), e |-> e + k + 1]
                      ELSE [m |-> s * q1, e |-> e + k]

\* `n as f64` for an integer n.
FFromInt(n) == FRound(n, 0)

FNeg(x) == [m |-> -x.m, e |-> x.e]
FAbs(x) == [m |-> Abs(x.m), e |-> x.e]

\* x < y
FLt(x, y) ==
    LET sx == Sgn(x.m)
        sy == Sgn(y.m)
    IN  IF sx /= sy THEN sx < sy
        ELSE IF sx = 0 THEN FALSE
        ELSE IF sx > 0 THEN x.e < y.e \/ (x.e = y.e /\ x.m < y.m)
        ELSE x.e > y.e \/ (x.e = y.e /\ x.m < y.m)

FLe(x, y) == x = y \/ FLt(x, y)

\* x + y.  An operand more than MantissaBits + 2 binary places below the
\* other is under a quarter of its last place and leaves it unchanged.
FAdd(x, y) ==
    IF x.m = 0 THEN y
    ELSE IF y.m = 0 THEN x
    ELSE LET hi == IF x.e >= y.e THEN x ELSE y
             lo == IF x.e >= y.e THEN y ELSE x
             d  == hi.e - lo.e
         IN  IF d > MantissaBits + 2 THEN hi
             ELSE FRound(hi.m * 2^d + lo.m, lo.e)

FSub(x, y) == FAdd(x, FNeg(y))

FMul(x, y) == FRound(x.m * y.m, x.e + y.e)

\* x / y: the quotient to MantissaBits + 2 bits, a nonzero remainder kept as
\* a sticky last bit, then rounded.
FDiv(x, y) ==
    IF y.m = 0 THEN FNaN
    ELSE IF x.m = 0 THEN FZero
    ELSE LET a == Abs(x.m) * 2^(MantissaBits + 2)
             b == Abs(y.m)
             q == a \div b
             t == IF a % b = 0 THEN 0 ELSE 1
         IN  FRound(Sgn(x.m) * Sgn(y.m) * (2 * q + t), x.e - y.e - (MantissaBits + 2) - 1)

\* The f64 of the ratio of two integers (n as f64 / d as f64).
FRatio(n, d) == FDiv(FFromInt(n), FFromInt(d))

\* x % n for f64 x and a positive integer n: the remainder of the division
\* truncated toward zero, which f64 computes exactly.
FRem(x, n) ==
    IF FLt(FAbs(x), FFromInt(n)) THEN x
    ELSE IF x.e >= 0
    THEN FRound(Sgn(x.m) * ((Abs(x.m) * 2^(x.e)) % n), 0)
    ELSE FRound(Sgn(x.m) * (Abs(x.m) % (n * 2^(-x.e))), x.e)

\* f64::rem_euclid(x, n) of the standard library:
\*   let r = self % rhs; if r < 0.0 { r + rhs.abs() } else { r }
rem_euclid(x, n) ==
    LET r == FRem(x, n)
    IN  IF r.m < 0 THEN FAdd(r, FFromInt(n)) ELSE r

(***************************************************************************)
(* angles.rs: the calendar and the geometry collaborator.                  *)
(***************************************************************************)
\* The Julian rule: every fourth year is a leap year.
leap_year_julian(year) == year % 4 = 0

leap_year(year) == (year % 400 = 0) \/ (year % 4 = 0 /\ year % 100 /= 0)

\* February always of 28 days.
days_in_months_common(year) == << 31, 28, 31, 30, 31, 30, 31, 31, 30, 31, 30, 31 >>

days_in_months(year) ==
    << 31, IF leap_year(year) THEN 29 ELSE 28, 31, 30, 31, 30, 31, 31, 30, 31, 30, 31 >>

RECURSIVE SumMonths(_, _)
\* dim[..n].iter().sum()
SumMonths(dim, n) == IF n = 0 THEN 0 ELSE dim[n] + SumMonths(dim, n - 1)

\* Half a minute, in 1/Den minute.
HalfMinute == Den \div 2

\* The part of the year a day lies in.  The closed forms below are sampled
\* once per part, at days 30, 80, 172, 274 and 310.
Segment(n) ==
    IF n <= 59 THEN 1
    ELSE IF n <= 120 THEN 2
    ELSE IF n <= 243 THEN 3
    ELSE IF n <= 304 THEN 4
    ELSE 5

\* equation_of_time(n) in 1/Den minute: -12.5, -7.5, -1.5, 10.5 and 16
\* minutes (the closed form gives -12.81, -7.86, -1.33, 10.47, 16.24).
equation_of_time(n) ==
    << -(12 * Den + HalfMinute), -(7 * Den + HalfMinute), -(Den + HalfMinute),
       10 * Den + HalfMinute, 16 * Den >>[Segment(n)]

\* utc_lst_correction(longitude, eot) = (4.0 * longitude + eot) / 60.0, in
\* 1/(60 * Den) hour; longitude is in quarter degrees, eot in 1/Den minute.
utc_lst_correction(longitude, eot) == longitude * Den + eot

\* cos_h = -tan(lat_rad) * tan(decl_rad) of estimate_sunrise_sunset, in
\* thousandths, for the latitudes of the model (tenths of a degree) and the
\* declination of the day's part of the year.
CosH(latitude, n) ==
    CASE latitude = 0    -> << 0, 0, 0, 0, 0 >>[Segment(n)]
      [] latitude = 398  -> << 271, 6, -361, 61, 252 >>[Segment(n)]
      [] latitude = 800  -> << 1847, 40, -2460, 418, 1716 >>[Segment(n)]
      [] latitude = -800 -> << -1847, -40, 2460, -418, -1716 >>[Segment(n)]

\* (rad_to_deg(acos(cos_h)) / 15.0) * 60.0 in 1/Den minute, for the values
\* of cos_h strictly between -1 and 1 that CosH takes.
HalfDayMinutes(cos_h) ==
    CASE cos_h = 0    -> 360 * Den
      [] cos_h = 271  -> 297 * Den
      [] cos_h = 6    -> 358 * Den + HalfMinute
      [] cos_h = -361 -> 444 * Den + HalfMinute
      [] cos_h = 61   -> 346 * Den
      [] cos_h = 252  -> 301 * Den + HalfMinute
      [] cos_h = 40   -> 351 * Den
      [] cos_h = 418  -> 261 * Den
      [] cos_h = -40  -> 369 * Den
      [] cos_h = -418 -> 459 * Den

F90 == FFromInt(90)
F180 == FFromInt(180)

\* normalize_angle(angle) = angle.rem_euclid(360.0)
normalize_angle(angle) == rem_euclid(angle, 360)

\* single_axis_tilt: rad_to_deg(atan2(tan(ha_rad), cos(lat_rad))).  Stand-in:
\* its value on the equator (cos(lat_rad) = 1), the hour angle folded into
\* [-90, 90].
single_axis_tilt(pos, latitude) ==
    IF FLt(F90, pos.hour_angle) THEN FSub(pos.hour_angle, F180)
    ELSE IF FLt(pos.hour_angle, FNeg(F90)) THEN FAdd(pos.hour_angle, F180)
    ELSE pos.hour_angle

\* dual_axis_angles: tilt = zenith, panel_azimuth = normalize(azimuth + 180).
dual_axis_angles(pos) ==
    [tilt |-> pos.zenith, panel_azimuth |-> normalize_angle(FAdd(pos.azimuth, F180))]

(***************************************************************************)
(* lookup_table.rs                                                         *)
(***************************************************************************)
intervals_per_day(interval_minutes) == 1440 \div interval_minutes

RECURSIVE month_day_wrapping(_, _, _)
\* The loop starting over in January when the months are used up.
month_day_wrapping(dim, month, remaining) ==
    IF month > 12 THEN month_day_wrapping(dim, 1, remaining)
    ELSE IF remaining <= dim[month] THEN << month, remaining >>
    ELSE month_day_wrapping(dim, month + 1, remaining - dim[month])

RECURSIVE month_day_from(_, _, _)
\* The loop of doy_to_month_day (lines 24-30) from month (1-based) on, and
\* the (12, 31) after it.
month_day_from(dim, month, remaining) ==
    IF month > 12 THEN << 12, 31 >>
    ELSE IF remaining <= dim[month] THEN << month, remaining >>
    ELSE month_day_from(dim, month + 1, remaining - dim[month])

\* doy_to_month_day(year, doy).  remaining = doy as u32: a negative doy is a
\* u32 above 2^31, which stays above every month's length through the loop.
doy_to_month_day(year, doy) ==
    IF doy < 0 THEN << 12, 31 >>
    ELSE month_day_from(days_in_months(year), 1, doy)

\* The polar branches exchanged.
estimate_sunrise_sunset_exchanged(latitude, day_of_year) ==
    IF CosH(latitude, day_of_year) >= 1000 THEN [sunrise |-> 0, sunset |-> 1440]
    ELSE IF CosH(latitude, day_of_year) <= -1000 THEN [sunrise |-> 720, sunset |-> 720]
    ELSE [sunrise |-> F64ToI32(720 * Den - HalfDayMinutes(CosH(latitude, day_of_year))),
          sunset  |-> F64ToI32(720 * Den + HalfDayMinutes(CosH(latitude, day_of_year)))]

estimate_sunrise_sunset(latitude, day_of_year) ==
    LET cos_h == CosH(latitude, day_of_year)
    IN  IF cos_h >= 1000 THEN [sunrise |-> 720, sunset |-> 720]
        ELSE IF cos_h <= -1000 THEN [sunrise |-> 0, sunset |-> 1440]
        ELSE LET half_day_minutes == HalfDayMinutes(cos_h)
                 solar_noon_minutes == 720
             IN  [sunrise |-> F64ToI32(solar_noon_minutes * Den - half_day_minutes),
                  sunset  |-> F64ToI32(solar_noon_minutes * Den + half_day_minutes)]

\* compute_angles_fast: the local solar time and the hour angle are computed
\* as the source does; zenith and azimuth are stand-ins for the closed forms
\* (|hour angle|, the zenith on the equator at an equinox, and hour angle +
\* 180, the azimuth at the pole).  utc_min is utc_hours * 60.
compute_angles_fast(correction, utc_min) ==
    LET lst == (utc_min * Den + correction) % (1440 * Den)
        ha  == FRatio(lst - 720 * Den, 4 * Den)
        zenith == FAbs(ha)
    IN  [local_solar_time |-> lst,
         hour_angle |-> ha,
         zenith |-> zenith,
         altitude |-> FSub(F90, zenith),
         azimuth |-> normalize_angle(FAdd(ha, F180))]

\* let sunrise_utc = (ss.sunrise as f64 - correction_minutes) as i32;
sunrise_utc_of(ss, correction_minutes) == F64ToI32(ss.sunrise * Den - correction_minutes)

\* let sunset_utc = (ss.sunset as f64 - correction_minutes) as i32;
sunset_utc_of(ss, correction_minutes) == F64ToI32(ss.sunset * Den - correction_minutes)

\* start_minute and end_minute of a day (lines 173-177), each with the
\* overflow of its i32 operation.
day_window(config, ss, correction_minutes) ==
    [start |-> SubI32(sunrise_utc_of(ss, correction_minutes),
                      config.sunrise_buffer_minutes),
     end   |-> AddI32(sunset_utc_of(ss, correction_minutes),
                      config.sunset_buffer_minutes)]

start_minute_of(w) == Max(0, w.start.val)
end_minute_of(w) == Min(1439, w.end.val)

\* (start_minute + interval_minutes - 1) / interval_minutes, as [val, ovf]
first_interval_of(start_minute, interval_minutes) ==
    [val |-> TruncDiv(SubI32(AddI32(start_minute, interval_minutes).val, 1).val,
                      interval_minutes),
     ovf |-> AddI32(start_minute, interval_minutes).ovf
             \/ SubI32(AddI32(start_minute, interval_minutes).val, 1).ovf]

\* (end_minute / interval_minutes).min(n_intervals - 1)
last_interval_of(end_minute, interval_minutes) ==
    Min(TruncDiv(end_minute, interval_minutes), intervals_per_day(interval_minutes) - 1)

\* Every second interval repeats the minute of the one before.
entry_minutes_paired(interval, interval_minutes) == (interval \div 2) * interval_minutes

\* let mins = interval * config.interval_minutes;
entry_minutes(interval, interval_minutes) == interval * interval_minutes

\* Daylight decided on the entry's own (UTC) minute.
is_daylight_at_utc(mins, correction_minutes, ss) ==
    mins >= ss.sunrise /\ mins <= ss.sunset

\* local_minutes >= ss.sunrise && local_minutes <= ss.sunset, with
\* local_minutes = (mins as f64 + correction_minutes) as i32
is_daylight_at(mins, correction_minutes, ss) ==
    /\ F64ToI32(mins * Den + correction_minutes) >= ss.sunrise
    /\ F64ToI32(mins * Den + correction_minutes) <= ss.sunset

\* correction * 60.0 of day doy, in 1/Den minute
correction_minutes_of(config, doy) ==
    utc_lst_correction(config.longitude, equation_of_time(doy))

\* The storage estimate with the bytes per entry left out.
table_metadata_unit(total_entries, bytes_per_entry) ==
    [generated_at |-> "now",
     total_entries |-> total_entries,
     storage_estimate_kb |-> FRatio(total_entries, 1024)]

\* The closure generate_single_axis_table passes (lines 263-270).
single_axis_entry(latitude, minutes, pos, is_daylight) ==
    [minutes |-> minutes,
     rotation |-> IF is_daylight THEN Some(single_axis_tilt(pos, latitude)) ELSE None]

\* The tilt computed for every entry, daylight or not.
dual_axis_entry_tilted(minutes, pos, is_daylight) ==
    IF is_daylight
    THEN [minutes |-> minutes, tilt |-> Some(dual_axis_angles(pos).tilt),
          panel_azimuth |-> Some(dual_axis_angles(pos).panel_azimuth)]
    ELSE [minutes |-> minutes, tilt |-> Some(dual_axis_angles(pos).tilt),
          panel_azimuth |-> None]

\* The closure generate_dual_axis_table passes (lines 274-289).
dual_axis_entry(minutes, pos, is_daylight) ==
    IF is_daylight
    THEN [minutes |-> minutes, tilt |-> Some(dual_axis_angles(pos).tilt),
          panel_azimuth |-> Some(dual_axis_angles(pos).panel_azimuth)]
    ELSE [minutes |-> minutes, tilt |-> None, panel_azimuth |-> None]

\* entry_fn(mins, &pos, is_daylight) for the closure of a table kind.
entry_fn(kind, latitude, minutes, pos, is_daylight) ==
    IF kind = "single_axis" THEN single_axis_entry(latitude, minutes, pos, is_daylight)
    ELSE dual_axis_entry(minutes, pos, is_daylight)

\* The entries of a day: (first_interval..=last_interval).map(..), empty
\* when last_interval < first_interval.
day_entries(config, doy, first_interval, last_interval, kind) ==
    IF last_interval < first_interval THEN << >>
    ELSE [k \in 1..(last_interval - first_interval + 1) |->
            entry_fn(kind, config.latitude,
                     entry_minutes(first_interval + k - 1, config.interval_minutes),
                     compute_angles_fast(
                         correction_minutes_of(config, doy),
                         entry_minutes(first_interval + k - 1, config.interval_minutes)),
                     is_daylight_at(
                         entry_minutes(first_interval + k - 1, config.interval_minutes),
                         correction_minutes_of(config, doy),
                         estimate_sunrise_sunset(config.latitude, doy)))]

\* One pass of the day loop of generate_table (lines 164-205): the Day Row
\* of day doy, the window [start_minute, end_minute] it was built from, and
\* whether an i32 operation overflowed on the way.
generate_day(config, doy, kind) ==
    LET ss == estimate_sunrise_sunset(config.latitude, doy)
        w == day_window(config, ss, correction_minutes_of(config, doy))
        first_interval == first_interval_of(start_minute_of(w), config.interval_minutes)
        last_interval == last_interval_of(end_minute_of(w), config.interval_minutes)
    IN  [row |-> [day_of_year |-> doy,
                  sunrise_minutes |-> ss.sunrise,
                  sunset_minutes |-> ss.sunset,
                  entries |-> day_entries(config, doy, first_interval.val, last_interval,
                                          kind)],
         start_minute |-> start_minute_of(w),
         end_minute |-> end_minute_of(w),
         ovf |-> w.start.ovf \/ w.end.ovf \/ first_interval.ovf]

\* let n_days = if leap_year(config.year) { 366 } else { 365 };
n_days(config) == IF leap_year(config.year) THEN 366 ELSE 365

\* The day loop of generate_table (lines 163-206) for the entry closure of a
\* table kind: for each day of the year, its Day Row and whether an i32
\* operation overflowed.
generate_days(config, kind) ==
    [doy \in 1..n_days(config) |-> generate_day(config, doy, kind)]

\* A LookupTable is [config, kind, rows, metadata]: a table is immutable and
\* its rows are those the day loop pushed for its config, so the value keeps
\* their number (days.len()) and days(table) gives them.
days(table) == [doy \in 1..table.rows |-> generate_days(table.config, table.kind)[doy].row]

RECURSIVE SumLen(_, _, _, _)
\* days.iter().map(|d| d.entries.len()).sum() over the rows lo..hi, summed
\* by halves
SumLen(config, kind, lo, hi) ==
    IF lo > hi THEN 0
    ELSE IF lo = hi THEN Len(generate_days(config, kind)[lo].row.entries)
    ELSE SumLen(config, kind, lo, (lo + hi) \div 2)
         + SumLen(config, kind, (lo + hi) \div 2 + 1, hi)

\* TableMetadata (lines 208-214): the entries are counted once and the
\* storage estimate is total_entries * bytes_per_entry / 1024.0.
table_metadata(total_entries, bytes_per_entry) ==
    [generated_at |-> "now",
     total_entries |-> total_entries,
     storage_estimate_kb |-> FRatio(total_entries * bytes_per_entry, 1024)]

\* generate_table: [table, ovf].  ovf says that some i32 operation of the
\* day loop overflowed: the table is then what a build without overflow
\* checks returns, and a build with them panics instead.
generate_table(config, kind, bytes_per_entry) ==
    [table |-> [config |-> config,
                kind |-> kind,
                rows |-> n_days(config),
                metadata |-> table_metadata(SumLen(config, kind, 1, n_days(config)),
                                            bytes_per_entry)],
     ovf |-> \E doy \in 1..n_days(config) : generate_days(config, kind)[doy].ovf]

generate_single_axis_table(config) == generate_table(config, "single_axis", 4)

generate_dual_axis_table(config) == generate_table(config, "dual_axis", 8)

\* The window check with both ends excluded.
outside_entries_strict(entries, minutes) ==
    minutes <= entries[1].minutes \/ minutes >= entries[Len(entries)].minutes

\* minutes < first_minutes || minutes > last_minutes (lines 103-107)
outside_entries(entries, minutes) ==
    minutes < entries[1].minutes \/ minutes > entries[Len(entries)].minutes

\* The index of the entry after the one at or before minutes.
idx_before_next(entries, interval_minutes, minutes) ==
    Min(TruncDiv(minutes - entries[1].minutes, interval_minutes) + 1, Len(entries) - 1)

\* ((minutes - first_minutes) / interval_minutes).min(entries.len() as i32 - 1),
\* a 0-based index as in the source
idx_before_of(entries, interval_minutes, minutes) ==
    Min(TruncDiv(minutes - entries[1].minutes, interval_minutes), Len(entries) - 1)

\* The successor used whenever there is one, the exact minute included.
bracket_at_successor(entries, idx_before, minutes) ==
    IF idx_before + 2 > Len(entries)
    THEN Some([before |-> entries[idx_before + 1], after |-> None, fraction |-> FZero])
    ELSE Some([before |-> entries[idx_before + 1],
               after |-> Some(entries[idx_before + 2]),
               fraction |-> FRatio(minutes - entries[idx_before + 1].minutes,
                                   entries[idx_before + 2].minutes
                                       - entries[idx_before + 1].minutes)])

\* Lines 110-120: the entry at idx_before, its successor if any, and the
\* fraction of the way from the one to the other.
bracket_at(entries, idx_before, minutes) ==
    IF idx_before + 2 > Len(entries) \/ minutes = entries[idx_before + 1].minutes
    THEN Some([before |-> entries[idx_before + 1], after |-> None, fraction |-> FZero])
    ELSE Some([before |-> entries[idx_before + 1],
               after |-> Some(entries[idx_before + 2]),
               fraction |-> FRatio(minutes - entries[idx_before + 1].minutes,
                                   entries[idx_before + 2].minutes
                                       - entries[idx_before + 1].minutes)])

\* find_bracketing_entries: None, or Some([before, after, fraction]) with
\* after an Option.
find_bracketing_entries(entries, interval_minutes, minutes) ==
    IF Len(entries) = 0 THEN None
    ELSE IF outside_entries(entries, minutes) THEN None
    ELSE bracket_at(entries, idx_before_of(entries, interval_minutes, minutes), minutes)

interpolate_angle(a1, a2, fraction) ==
    IF a1 = None \/ a2 = None THEN None
    ELSE LET v1 == Unwrap(a1)
             v2 == Unwrap(a2)
             diff == FSub(v2, v1)
             adjusted_diff == IF FLt(F180, diff) THEN FSub(diff, FFromInt(360))
                              ELSE IF FLt(diff, FNeg(F180)) THEN FAdd(diff, FFromInt(360))
                              ELSE diff
         IN  Some(rem_euclid(FAdd(v1, FMul(adjusted_diff, fraction)), 360))

\* An absent operand replaced by the other one.
interpolate_linear_other(v1, v2, fraction) ==
    IF v1 = None THEN v2
    ELSE IF v2 = None THEN v1
    ELSE Some(FAdd(Unwrap(v1), FMul(fraction, FSub(Unwrap(v2), Unwrap(v1)))))

\* The interpolation started from the second value.
interpolate_linear_from_v2(v1, v2, fraction) ==
    IF v1 = None \/ v2 = None THEN None
    ELSE Some(FAdd(Unwrap(v2), FMul(fraction, FSub(Unwrap(v2), Unwrap(v1)))))

interpolate_linear(v1, v2, fraction) ==
    IF v1 = None \/ v2 = None THEN None
    ELSE LET a == Unwrap(v1)
             b == Unwrap(v2)
         IN  Some(FAdd(a, FMul(fraction, FSub(b, a))))

\* table.days[(day_of_year - 1) as usize]: whether the index is in bounds.
\* day_of_year - 1 overflows for i32::MIN; checked, that panics; wrapped, it
\* is i32::MAX, out of bounds as well.  A negative index is a huge usize.
DayIndexInBounds(table, day_of_year) ==
    LET i == SubI32(day_of_year, 1)
    IN  ~i.ovf /\ i.val >= 0 /\ i.val < table.rows

\* The outcome of a lookup: [outcome |-> "panic"], [outcome |-> "none"] or
\* [outcome |-> "some", entry |-> e].
Panic == [outcome |-> "panic"]
NotFound == [outcome |-> "none"]
Found(e) == [outcome |-> "some", entry |-> e]

\* The entry returned with the minute of the entry before.
single_axis_at_before(found, minutes) ==
    IF found = None THEN NotFound
    ELSE IF Unwrap(found).after = None
    THEN Found([minutes |-> Unwrap(found).before.minutes,
                rotation |-> Unwrap(found).before.rotation])
    ELSE Found([minutes |-> Unwrap(found).before.minutes,
                rotation |-> interpolate_linear(Unwrap(found).before.rotation,
                                                Unwrap(Unwrap(found).after).rotation,
                                                Unwrap(found).fraction)])

\* The match of lookup_single_axis on what find_bracketing_entries found.
single_axis_at(found, minutes) ==
    IF found = None THEN NotFound
    ELSE IF Unwrap(found).after = None
    THEN Found([minutes |-> minutes, rotation |-> Unwrap(found).before.rotation])
    ELSE Found([minutes |-> minutes,
                rotation |-> interpolate_linear(Unwrap(found).before.rotation,
                                                Unwrap(Unwrap(found).after).rotation,
                                                Unwrap(found).fraction)])

lookup_single_axis(table, day_of_year, minutes) ==
    IF ~DayIndexInBounds(table, day_of_year) THEN Panic
    ELSE single_axis_at(find_bracketing_entries(days(table)[day_of_year].entries,
                                                table.config.interval_minutes, minutes),
                        minutes)

\* The match of lookup_dual_axis on what find_bracketing_entries found.
dual_axis_at(found, minutes) ==
    IF found = None THEN NotFound
    ELSE IF Unwrap(found).after = None
    THEN Found([minutes |-> minutes, tilt |-> Unwrap(found).before.tilt,
                panel_azimuth |-> Unwrap(found).before.panel_azimuth])
    ELSE Found([minutes |-> minutes,
                tilt |-> interpolate_linear(Unwrap(found).before.tilt,
                                            Unwrap(Unwrap(found).after).tilt,
                                            Unwrap(found).fraction),
                panel_azimuth |-> interpolate_angle(Unwrap(found).before.panel_azimuth,
                                                    Unwrap(Unwrap(found).after).panel_azimuth,
                                                    Unwrap(found).fraction)])

lookup_dual_axis(table, day_of_year, minutes) ==
    IF ~DayIndexInBounds(table, day_of_year) THEN Panic
    ELSE dual_axis_at(find_bracketing_entries(days(table)[day_of_year].entries,
                                              table.config.interval_minutes, minutes),
                      minutes)

\* Absent rotations exported as 0.0.
single_axis_table_to_compact_zeroed(table) ==
    [d \in 1..table.rows |->
        [k \in 1..Len(days(table)[d].entries) |->
            IF days(table)[d].entries[k].rotation = None THEN Some(FZero)
            ELSE days(table)[d].entries[k].rotation]]

\* single_axis_table_to_compact: per day, the rotations of its entries.
single_axis_table_to_compact(table) ==
    [d \in 1..table.rows |->
        [k \in 1..Len(days(table)[d].entries) |-> days(table)[d].entries[k].rotation]]

\* dual_axis_table_to_compact: per day, the (tilt, panel_azimuth) pairs of
\* its entries.
dual_axis_table_to_compact(table) ==
    [d \in 1..table.rows |->
        [k \in 1..Len(days(table)[d].entries) |->
            << days(table)[d].entries[k].tilt,
               days(table)[d].entries[k].panel_azimuth >>]]

(***************************************************************************)
(* The state machine: a configuration, the table generated from it and the *)
(* last call.  A table is immutable once generated and is a function of    *)
(* the configuration (the generation timestamp aside): the state keeps its *)
(* kind, its number of rows and its metadata, and TableOf gives its rows.  *)
(* The lookups only read; the model follows one lookup from the state a    *)
(* generator leaves.                                                       *)
(***************************************************************************)
VARIABLES
    config,    \* the LookupTableConfig of the run
    table,     \* Absent, Panicked(kind) or Ready(kind, t)
    last       \* the last call: its name, its arguments and its outcome

vars == << config, table, last >>

Absent == [state |-> "absent"]
Panicked(kind) == [state |-> "panicked", kind |-> kind]
Ready(t) == [state |-> "ready", kind |-> t.kind, rows |-> t.rows, metadata |-> t.metadata]

\* The table the state stands for when table.state = "ready".
TableOf == [config |-> config, kind |-> table.kind, rows |-> table.rows,
            metadata |-> table.metadata]

\* LookupTableConfig::default() (types.rs), with the longitude -89.6 taken as
\* -89.5 (quarter degrees) and the interval of the 30-minute test table.
DefaultConfig ==
    [interval_minutes |-> 30, latitude |-> 398, longitude |-> -358, year |-> 2026,
     sunrise_buffer_minutes |-> 30, sunset_buffer_minutes |-> 30]

\* The configurations of the model: positive intervals, latitudes within
\* [-90, 90], longitudes within [-180, 180], buffers >= 0.
Configs ==
    { [interval_minutes |-> 240, latitude |-> lat, longitude |-> lon, year |-> 2026,
       sunrise_buffer_minutes |-> b[1], sunset_buffer_minutes |-> b[2]] :
         lat \in {0, 398, 800, -800}, lon \in {-358, 0, 720},
         b \in {<<30, 30>>, <<0, 0>>} }
    \cup { [DefaultConfig EXCEPT !.year = y, !.interval_minutes = 360] :
             y \in {1900, 2000, 2024, 2025} }
    \cup { [DefaultConfig EXCEPT !.interval_minutes = iv] :
             iv \in {15, 30, 60, 1000, I32Max} }
    \cup { [DefaultConfig EXCEPT !.interval_minutes = 32, !.latitude = lat,
                                 !.longitude = 0] : lat \in {0, 800} }
    \cup { [DefaultConfig EXCEPT !.latitude = 800, !.longitude = 720,
                                 !.sunrise_buffer_minutes = 0,
                                 !.sunset_buffer_minutes = 0] }
    \cup { [DefaultConfig EXCEPT !.sunset_buffer_minutes = I32Max] }

\* The day_of_year arguments of the lookups.
LookupDays == {I32Min, -1, 0, 1, 30, 80, 172, 274, 310, 365, 366, 367}
\* The minutes arguments of the lookups.
LookupMinutes ==
    {-1, 0, 1, 45, 240, 330, 360, 390, 480, 700, 720, 727, 735, 750, 960, 1080, 1110,
     1200, 1439, 1440}

Generators == {"new", "generate_single_axis_table", "generate_dual_axis_table"}

Init ==
    /\ config \in Configs
    /\ table = Absent
    /\ last = [op |-> "new"]

\* generate_single_axis_table(&config).  checked: the build has overflow
\* checks (an i32 overflow panics) or not (it wraps).
GenerateSingleAxisTable ==
    /\ table = Absent
    /\ \E g \in {generate_single_axis_table(config)}, checked \in BOOLEAN :
             /\ table' = IF g.ovf /\ checked THEN Panicked("single_axis")
                         ELSE Ready(g.table)
             /\ last' = [op |-> "generate_single_axis_table",
                         outcome |-> IF g.ovf /\ checked THEN "panic" ELSE "ok"]
    /\ UNCHANGED config

\* generate_dual_axis_table(&config).
GenerateDualAxisTable ==
    /\ table = Absent
    /\ \E g \in {generate_dual_axis_table(config)}, checked \in BOOLEAN :
             /\ table' = IF g.ovf /\ checked THEN Panicked("dual_axis")
                         ELSE Ready(g.table)
             /\ last' = [op |-> "generate_dual_axis_table",
                         outcome |-> IF g.ovf /\ checked THEN "panic" ELSE "ok"]
    /\ UNCHANGED config

\* lookup_single_axis(&table, day_of_year, minutes)
LookupSingleAxis ==
    /\ table.state = "ready"
    /\ table.kind = "single_axis"
    /\ last.op \in Generators
    /\ \E day_of_year \in LookupDays, minutes \in LookupMinutes :
         last' = [op |-> "lookup_single_axis", day_of_year |-> day_of_year,
                  minutes |-> minutes,
                  result |-> lookup_single_axis(TableOf, day_of_year, minutes)]
    /\ UNCHANGED << config, table >>

\* lookup_dual_axis(&table, day_of_year, minutes)
LookupDualAxis ==
    /\ table.state = "ready"
    /\ table.kind = "dual_axis"
    /\ last.op \in Generators
    /\ \E day_of_year \in LookupDays, minutes \in LookupMinutes :
         last' = [op |-> "lookup_dual_axis", day_of_year |-> day_of_year,
                  minutes |-> minutes,
                  result |-> lookup_dual_axis(TableOf, day_of_year, minutes)]
    /\ UNCHANGED << config, table >>

\* single_axis_table_to_compact(&table)
SingleAxisTableToCompact ==
    /\ table.state = "ready"
    /\ table.kind = "single_axis"
    /\ last.op \in Generators
    /\ last' = [op |-> "single_axis_table_to_compact",
                result |-> single_axis_table_to_compact(TableOf)]
    /\ UNCHANGED << config, table >>

\* dual_axis_table_to_compact(&table)
DualAxisTableToCompact ==
    /\ table.state = "ready"
    /\ table.kind = "dual_axis"
    /\ last.op \in Generators
    /\ last' = [op |-> "dual_axis_table_to_compact",
                result |-> dual_axis_table_to_compact(TableOf)]
    /\ UNCHANGED << config, table >>

Next ==
    \/ GenerateSingleAxisTable
    \/ GenerateDualAxisTable
    \/ LookupSingleAxis
    \/ LookupDualAxis
    \/ SingleAxisTableToCompact
    \/ DualAxisTableToCompact

Spec == Init /\ [][Next]_vars

(***************************************************************************)
(* The interpolation functions on their own: one call of interpolate_angle *)
(* or interpolate_linear on arguments drawn from AngleArgs and Fractions.  *)
(***************************************************************************)
\* Angles in [0, 360), in sixteenths of a degree: 0, 1/16, 10, 90, 170, 180,
\* 190, 350 and 359.875 degrees.
AngleSixteenths == {0, 1, 160, 1440, 2720, 2880, 3040, 5600, 5758}
\* Option<f64> arguments: None, or Some of one of the angles.
AngleArgs == {None} \cup { Some(FRatio(n, 16)) : n \in AngleSixteenths }
\* Fractions in [0, 1]: 0, 1/4, 1/2, 3/4, 1.
Fractions == { FRatio(k, 4) : k \in 0..4 }

InitInterpolate ==
    /\ config = DefaultConfig
    /\ table = Absent
    /\ last = [op |-> "new"]

\* interpolate_angle(a1, a2, fraction)
InterpolateAngle ==
    /\ last.op = "new"
    /\ \E a1 \in AngleArgs, a2 \in AngleArgs, fraction \in Fractions :
         last' = [op |-> "interpolate_angle", a1 |-> a1, a2 |-> a2,
                  fraction |-> fraction,
                  result |-> interpolate_angle(a1, a2, fraction)]
    /\ UNCHANGED << config, table >>

\* interpolate_linear(v1, v2, fraction)
InterpolateLinear ==
    /\ last.op = "new"
    /\ \E v1 \in AngleArgs, v2 \in AngleArgs, fraction \in Fractions :
         last' = [op |-> "interpolate_linear", a1 |-> v1, a2 |-> v2,
                  fraction |-> fraction,
                  result |-> interpolate_linear(v1, v2, fraction)]
    /\ UNCHANGED << config, table >>

NextInterpolate ==
    \/ InterpolateAngle
    \/ InterpolateLinear

SpecInterpolate == InitInterpolate /\ [][NextInterpolate]_vars

\* The outcome of a call that can panic: [outcome |-> "panic"] or
\* [outcome |-> "ok", val |-> v].
Panics == [outcome |-> "panic"]
Returns(v) == [outcome |-> "ok", val |-> v]

\* angles.rs: day_of_year(year, month, day) for u32 month and day.  (month - 1) as
\* usize: for month = 0 the subtraction overflows u32, which panics with
\* overflow checks and wraps to u32::MAX without; the slice dim[..n] panics
\* for every n > 12, u32::MAX included.  sum + day stays far from the u32
\* and i32 limits for the days of the model.
day_of_year(year, month, day) ==
    IF month = 0 \/ month - 1 > 12 THEN Panics
    ELSE Returns(SumMonths(days_in_months(year), month - 1) + day)

(***************************************************************************)
(* The calendar functions and the daylight estimator on their own: one     *)
(* call of day_of_year, doy_to_month_day or estimate_sunrise_sunset, and   *)
(* doy_to_month_day on what day_of_year returned.                          *)
(***************************************************************************)
Years == {1900, 2000, 2024, 2025, 2026}
\* u32 months and days, in and out of the calendar range.
Months == 0..15
DaysOfMonth == 0..32
\* i32 days of the year, in and out of the range of a year.
DaysOfYear == {-1, 0, 1, 2, 31, 32, 59, 60, 61, 364, 365, 366, 367, 400, 1000}
\* Latitudes in tenths of a degree.
Latitudes == {0, 398, 800, -800}

InitFunctions ==
    /\ config = DefaultConfig
    /\ table = Absent
    /\ last = [op |-> "new"]

\* day_of_year(year, month, day)
DayOfYear ==
    /\ last.op = "new"
    /\ \E year \in Years, month \in Months, day \in DaysOfMonth :
         last' = [op |-> "day_of_year", year |-> year, month |-> month, day |-> day,
                  result |-> day_of_year(year, month, day)]
    /\ UNCHANGED << config, table >>

\* doy_to_month_day(year, doy)
DoyToMonthDay ==
    /\ last.op = "new"
    /\ \E year \in Years, doy \in DaysOfYear :
         last' = [op |-> "doy_to_month_day", year |-> year, doy |-> doy, of |-> None,
                  result |-> doy_to_month_day(year, doy)]
    /\ UNCHANGED << config, table >>

\* doy_to_month_day(year, day_of_year(year, month, day))
DoyToMonthDayOfDayOfYear ==
    /\ last.op = "day_of_year"
    /\ last.result.outcome = "ok"
    /\ last' = [op |-> "doy_to_month_day", year |-> last.year, doy |-> last.result.val,
                of |-> Some(<< last.month, last.day >>),
                result |-> doy_to_month_day(last.year, last.result.val)]
    /\ UNCHANGED << config, table >>

\* estimate_sunrise_sunset(latitude, day_of_year)
EstimateSunriseSunset ==
    /\ last.op = "new"
    /\ \E latitude \in Latitudes, doy \in 1..366 :
         last' = [op |-> "estimate_sunrise_sunset", latitude |-> latitude,
                  day_of_year |-> doy,
                  result |-> estimate_sunrise_sunset(latitude, doy)]
    /\ UNCHANGED << config, table >>

NextFunctions ==
    \/ DayOfYear
    \/ DoyToMonthDay
    \/ DoyToMonthDayOfDayOfYear
    \/ EstimateSunriseSunset

SpecFunctions == InitFunctions /\ [][NextFunctions]_vars

(***************************************************************************)
(* Properties.  The table-wide ones are stated in the state a generator    *)
(* leaves (a table never changes afterwards); the lookup ones in the state *)
(* a lookup leaves, on its arguments and its outcome.                      *)
(***************************************************************************)
Generated ==
    /\ last.op \in {"generate_single_axis_table", "generate_dual_axis_table"}
    /\ table.state = "ready"

LookedUp == last.op \in {"lookup_single_axis", "lookup_dual_axis"}

\* The lookup was for a day the table has a row for.
ValidDay == LookedUp /\ last.day_of_year \in 1..table.rows

\* The row of the day the last lookup asked for.
LookedUpRow == days(TableOf)[last.day_of_year]

AllRows(P(_)) == \A d \in 1..table.rows : P(days(TableOf)[d])
SomeRow(P(_)) == \E d \in 1..table.rows : P(days(TableOf)[d])

\* The angle fields of an entry: rotation, or tilt and panel_azimuth.
AngleFields(e) == IF table.kind = "single_axis" THEN {e.rotation}
                  ELSE {e.tilt, e.panel_azimuth}
AnglesPresent(e) == \A a \in AngleFields(e) : a /= None
AnglesAbsent(e) == \A a \in AngleFields(e) : a = None

\* The value the linear interpolation applies to: rotation or tilt.
LinearValue(e) == IF table.kind = "single_axis" THEN e.rotation ELSE e.tilt

\* C1: a lookup for a day_of_year outside the table's day range (<= 0, or
\* greater than the number of Day Rows) returns "not found" and does not
\* panic.
C1_OutOfRangeDayNotFound ==
    (LookedUp /\ ~ValidDay) => last.result = NotFound

C2_RowByStoredMinutes(row) ==
    \A k \in 1..Len(row.entries) :
        LET e == row.entries[k]
        IN  IF row.sunrise_minutes <= e.minutes /\ e.minutes <= row.sunset_minutes
            THEN AnglesPresent(e) ELSE AnglesAbsent(e)

C2_RowByLocalMinutes(row) ==
    \A k \in 1..Len(row.entries) :
        LET e == row.entries[k]
            local_minutes ==
                F64ToI32(e.minutes * Den + correction_minutes_of(config, row.day_of_year))
        IN  IF row.sunrise_minutes <= local_minutes /\ local_minutes <= row.sunset_minutes
            THEN AnglesPresent(e) ELSE AnglesAbsent(e)

C2_RowWitness(row) ==
    /\ \E k \in 1..Len(row.entries) :
          AnglesPresent(row.entries[k]) /\ row.entries[k].minutes > row.sunset_minutes
    /\ \E k \in 1..Len(row.entries) : AnglesAbsent(row.entries[k])

C3_Outcome(entries, minutes, result) ==
    IF Len(entries) = 0 THEN result = NotFound
    ELSE IF minutes < entries[1].minutes \/ minutes > entries[Len(entries)].minutes
    THEN result = NotFound
    ELSE result.outcome = "some"

\* C3: for a valid day_of_year, a lookup returns None when the row has no
\* entries or the minute is below the first entry's minute or above the last
\* entry's, and Some entry for every minute from the first entry's minute to
\* the last entry's, both included.
C3_NoneOutsideSomeInside ==
    ValidDay => C3_Outcome(LookedUpRow.entries, last.minutes, last.result)

C3_AtFirst(entries) == Len(entries) >= 2 /\ last.minutes = entries[1].minutes

\* A lookup at the first entry's minute of a row with several entries, which
\* returned an entry.
C3_Witness ==
    ValidDay /\ last.result.outcome = "some" /\ C3_AtFirst(LookedUpRow.entries)

C4_Outcome(entries, minutes, result) ==
    \A k \in 1..Len(entries) :
        entries[k].minutes = minutes => result = Found(entries[k])

\* C4: a lookup at the minute of an entry of the day's row returns an entry
\* equal to it in every field, the last entry of the row included.
C4_ExactMinuteReturnsEntry ==
    ValidDay => C4_Outcome(LookedUpRow.entries, last.minutes, last.result)

C4_AtLast(entries) ==
    /\ Len(entries) >= 2
    /\ last.minutes = entries[Len(entries)].minutes
    /\ last.result = Found(entries[Len(entries)])

\* A lookup at the last entry's minute of a row with several entries, which
\* returned that entry, its angles present.
C4_Witness ==
    ValidDay /\ C4_AtLast(LookedUpRow.entries) /\ AnglesPresent(last.result.entry)

C5_Row(row) ==
    \A k \in 1..(Len(row.entries) - 1) :
        row.entries[k].minutes < row.entries[k + 1].minutes

\* C5: in every Day Row of a generated table the entry minutes are strictly
\* increasing.
C5_MinutesStrictlyIncreasing == Generated => AllRows(C5_Row)

C5_LongRow(row) == Len(row.entries) >= 3

\* A generated table with a row of three entries or more.
C5_Witness == Generated /\ SomeRow(C5_LongRow)

\* C6: a generated table has 366 Day Rows when its year is divisible by 400,
\* or by 4 and not by 100, and 365 otherwise, and its i-th row carries
\* day_of_year = i.
C6_RowsOfTheYear ==
    Generated =>
        /\ table.rows = IF config.year % 400 = 0
                           \/ (config.year % 4 = 0 /\ config.year % 100 /= 0)
                        THEN 366 ELSE 365
        /\ \A i \in 1..table.rows : days(TableOf)[i].day_of_year = i

\* A table generated for a year divisible by 100 and not by 400, of 365
\* rows, the last with day_of_year = 365.
C6_Witness ==
    /\ Generated
    /\ config.year % 100 = 0 /\ config.year % 400 /= 0
    /\ table.rows = 365
    /\ days(TableOf)[365].day_of_year = 365

\* C7: generation does not panic for a configuration with a positive
\* interval, a latitude in [-90, 90], a longitude in [-180, 180] and buffers
\* >= 0 (every configuration of Configs).
C7_GenerationNeverPanics == table.state /= "panicked"

C8_Day(g) == g.end_minute < g.start_minute => Len(g.row.entries) = 0

\* C8: for every day of a generated table, if the window has
\* end_minute < start_minute then the day's entry sequence is empty, also
\* when end_minute is negative and start_minute is 0.
C8_EmptyWhenEndBeforeStart ==
    Generated =>
        \A d \in 1..table.rows : C8_Day(generate_days(config, table.kind)[d])

C10_Between(entries, k, minutes, result) ==
    LET v1 == Unwrap(LinearValue(entries[k]))
        v2 == Unwrap(LinearValue(entries[k + 1]))
        fraction == FRatio(minutes - entries[k].minutes,
                           entries[k + 1].minutes - entries[k].minutes)
        value == LinearValue(result.entry)
    IN  /\ result.outcome = "some"
        /\ value = Some(FAdd(v1, FMul(fraction, FSub(v2, v1))))
        /\ FLe(IF FLe(v1, v2) THEN v1 ELSE v2, Unwrap(value))
        /\ FLe(Unwrap(value), IF FLe(v1, v2) THEN v2 ELSE v1)

C10_Outcome(entries, minutes, result) ==
    \A k \in 1..(Len(entries) - 1) :
        ( /\ entries[k].minutes < minutes /\ minutes < entries[k + 1].minutes
          /\ LinearValue(entries[k]) /= None
          /\ LinearValue(entries[k + 1]) /= None )
        => C10_Between(entries, k, minutes, result)

\* C10: a lookup whose minute falls strictly between two adjacent entries of
\* the row that both have the value returns, as rotation (single-axis) or
\* tilt (dual-axis), v1 + fraction * (v2 - v1), a value between v1 and v2
\* inclusive.
C10_LinearInterpolationBetween ==
    ValidDay => C10_Outcome(LookedUpRow.entries, last.minutes, last.result)

C10_Strictly(entries, minutes, result) ==
    \E k \in 1..(Len(entries) - 1) :
        /\ entries[k].minutes < minutes /\ minutes < entries[k + 1].minutes
        /\ LinearValue(entries[k]) /= None
        /\ LinearValue(entries[k + 1]) /= None
        /\ result.outcome = "some"
        /\ LinearValue(result.entry) /= None
        /\ LinearValue(result.entry) /= LinearValue(entries[k])
        /\ LinearValue(result.entry) /= LinearValue(entries[k + 1])

\* A lookup strictly between two adjacent entries that both have the value,
\* which returned a value other than theirs.
C10_Witness ==
    ValidDay /\ C10_Strictly(LookedUpRow.entries, last.minutes, last.result)

\* C9: interpolate_angle on two present values in [0, 360) and a fraction
\* in [0, 1] returns a value in [0, 360); from 350 to 10 and from 10 to 350
\* at fraction 1/2 it returns 0.
C9_AngleInRangeOnShortArc ==
    (last.op = "interpolate_angle" /\ last.a1 /= None /\ last.a2 /= None) =>
        /\ last.result /= None
        /\ FLe(FZero, Unwrap(last.result))
        /\ FLt(Unwrap(last.result), FFromInt(360))
        /\ ( /\ {last.a1, last.a2} = {Some(FFromInt(350)), Some(FFromInt(10))}
             /\ last.fraction = FRatio(1, 2) )
           => last.result = Some(FZero)

\* The names of the angle fields of an entry of the table.
FieldNames == IF table.kind = "single_axis" THEN {"rotation"}
              ELSE {"tilt", "panel_azimuth"}

C11_Bracket(entries, k, minutes, result) ==
    LET fraction == FRatio(minutes - entries[k].minutes,
                           entries[k + 1].minutes - entries[k].minutes)
    IN  \A f \in FieldNames :
            (entries[k][f] = None \/ entries[k + 1][f] = None) =>
                /\ result.outcome = "some"
                /\ result.entry[f] = None
                /\ interpolate_linear(entries[k][f], entries[k + 1][f], fraction) = None
                /\ interpolate_angle(entries[k][f], entries[k + 1][f], fraction) = None

C11_Outcome(entries, minutes, result) ==
    \A k \in 1..(Len(entries) - 1) :
        (entries[k].minutes < minutes /\ minutes < entries[k + 1].minutes)
        => C11_Bracket(entries, k, minutes, result)

\* C11: when a lookup interpolates between two bracketing entries and a
\* field is absent in either of them, the field is absent in the result;
\* interpolate_angle and interpolate_linear return None when either operand
\* is None.
C11_AbsentPropagates ==
    ValidDay => C11_Outcome(LookedUpRow.entries, last.minutes, last.result)

C11_OneAbsent(entries, minutes, result) ==
    \E k \in 1..(Len(entries) - 1) :
        /\ entries[k].minutes < minutes /\ minutes < entries[k + 1].minutes
        /\ AnglesAbsent(entries[k])
        /\ AnglesPresent(entries[k + 1])
        /\ result.outcome = "some"
        /\ AnglesAbsent(result.entry)

\* A lookup strictly between an entry with its angles absent and the next
\* one with its angles present, which returned the angles absent.
C11_Witness ==
    ValidDay /\ C11_OneAbsent(LookedUpRow.entries, last.minutes, last.result)

\* The Gregorian rule and the month lengths, as the calendar has them.
IsLeap(year) == year % 400 = 0 \/ (year % 4 = 0 /\ year % 100 /= 0)
MonthLength(year, month) ==
    IF month = 2 THEN (IF IsLeap(year) THEN 29 ELSE 28)
    ELSE IF month \in {4, 6, 9, 11} THEN 30 ELSE 31
ValidDate(year, month, day) ==
    month \in 1..12 /\ day >= 1 /\ day <= MonthLength(year, month)

\* C12: for every year, month in 1..12 and day valid for that month in that
\* year, doy_to_month_day(year, day_of_year(year, month, day)) is
\* (month, day).
C12_CalendarRoundTrip ==
    ( /\ last.op = "doy_to_month_day"
      /\ last.of /= None
      /\ ValidDate(last.year, Unwrap(last.of)[1], Unwrap(last.of)[2]) )
    => last.result = Unwrap(last.of)

\* The round trip of a February 29.
C12_Witness ==
    /\ last.op = "doy_to_month_day"
    /\ last.of = Some(<< 2, 29 >>)
    /\ IsLeap(last.year)
    /\ last.result = << 2, 29 >>

\* C13: day_of_year returns a number, without crashing, also for a month or
\* a day outside the calendar range (month = 0, month >= 14).
C13_DayOfYearNeverCrashes ==
    last.op = "day_of_year" => last.result.outcome = "ok"

\* The entries of the table, counted one by one.
C14_Entries(t) ==
    UNION { { << d, k >> : k \in 1..Len(days(t)[d].entries) } : d \in 1..t.rows }

C14_Metadata(t, n, bytes_per_entry) ==
    /\ t.metadata.total_entries = n
    /\ t.metadata.storage_estimate_kb = FDiv(FFromInt(n * bytes_per_entry), FFromInt(1024))
    /\ n > 0 => /\ t.metadata.total_entries > 0
                /\ FLt(FZero, t.metadata.storage_estimate_kb)

\* C14: the metadata's total_entries is the sum of the rows' entry counts,
\* storage_estimate_kb is total_entries times the bytes per entry (4 for
\* single-axis, 8 for dual-axis) divided by 1024, and both are positive when
\* some row has an entry.
C14_MetadataTotals ==
    Generated =>
        C14_Metadata(TableOf, Cardinality(C14_Entries(TableOf)),
                     IF table.kind = "single_axis" THEN 4 ELSE 8)

\* A generated dual-axis table with rows with and without entries and a
\* positive total.
C14_Witness ==
    /\ Generated
    /\ table.kind = "dual_axis"
    /\ table.metadata.total_entries > 0
    /\ \E d \in 1..table.rows : Len(days(TableOf)[d].entries) = 0
    /\ \E d \in 1..table.rows : Len(days(TableOf)[d].entries) > 0

C15_Branches(cos_h, r) ==
    /\ cos_h >= 1000 => r = [sunrise |-> 720, sunset |-> 720]
    /\ cos_h <= -1000 => r = [sunrise |-> 0, sunset |-> 1440]
    /\ (cos_h > -1000 /\ cos_h < 1000) =>
           /\ r.sunrise = TruncDiv(720 * Den - HalfDayMinutes(cos_h), Den)
           /\ r.sunset = TruncDiv(720 * Den + HalfDayMinutes(cos_h), Den)
    /\ 0 <= r.sunrise /\ r.sunrise <= 720
    /\ 720 <= r.sunset /\ r.sunset <= 1440

\* C15: estimate_sunrise_sunset returns (720, 720) when cos_h >= 1,
\* (0, 1440) when cos_h <= -1, and otherwise 720 -/+ the half day length
\* truncated to whole minutes; always 0 <= sunrise <= 720 <= sunset <= 1440.
C15_EstimatorBranchesAndRange ==
    last.op = "estimate_sunrise_sunset" =>
        C15_Branches(CosH(last.latitude, last.day_of_year), last.result)

\* An estimate for a polar night (cos_h >= 1), which is (720, 720).
C15_Witness ==
    /\ last.op = "estimate_sunrise_sunset"
    /\ CosH(last.latitude, last.day_of_year) >= 1000
    /\ last.result = [sunrise |-> 720, sunset |-> 720]

\* The number of days of a year, by the Gregorian rule.
YearLength(year) == IF IsLeap(year) THEN 366 ELSE 365

\* C17: doy_to_month_day returns (12, 31) for every doy above the number of
\* days of the year, (1, 1) for doy = 1, and (12, 31) for the last day of
\* the year (365, or 366 in a leap year).
C17_ClampedToDecember31 ==
    last.op = "doy_to_month_day" =>
        /\ last.doy > YearLength(last.year) => last.result = << 12, 31 >>
        /\ last.doy = 1 => last.result = << 1, 1 >>
        /\ last.doy = YearLength(last.year) => last.result = << 12, 31 >>

\* A call with a doy above the number of days of a leap year, which
\* returned (12, 31).
C17_Witness ==
    /\ last.op = "doy_to_month_day"
    /\ IsLeap(last.year)
    /\ last.doy > 366
    /\ last.result = << 12, 31 >>

\* The default configuration sampled every 15 minutes.
C16_Config == config = [DefaultConfig EXCEPT !.interval_minutes = 15]

\* C16: on a table generated from the default configuration with a
\* 15-minute interval, a lookup at day 80, minute 720 returns an entry with
\* minutes = 720 and its angles present (rotation; tilt and panel_azimuth).
C16_Day80Minute720Present ==
    (C16_Config /\ LookedUp /\ last.day_of_year = 80 /\ last.minutes = 720) =>
        /\ last.result.outcome = "some"
        /\ last.result.entry.minutes = 720
        /\ AnglesPresent(last.result.entry)

Exported == last.op \in {"single_axis_table_to_compact", "dual_axis_table_to_compact"}

\* What the exporter of the table's kind keeps of an entry.
C18_Kept(e) == IF table.kind = "single_axis" THEN e.rotation
               ELSE << e.tilt, e.panel_azimuth >>

C18_Row(entries, exported) ==
    /\ Len(exported) = Len(entries)
    /\ \A k \in 1..Len(entries) : exported[k] = C18_Kept(entries[k])

\* C18: the compact export has one sequence per Day Row, in day order, each
\* as long as the row's entry sequence, its k-th element the k-th entry's
\* rotation (single-axis) or (tilt, panel_azimuth) pair (dual-axis), absent
\* values staying absent.
C18_CompactKeepsShape ==
    Exported =>
        /\ Len(last.result) = table.rows
        /\ \A d \in 1..table.rows : C18_Row(days(TableOf)[d].entries, last.result[d])

\* A single-axis export with an absent and a present rotation in one row.
C18_Witness ==
    /\ last.op = "single_axis_table_to_compact"
    /\ \E d \in 1..table.rows :
          /\ \E k \in 1..Len(last.result[d]) : last.result[d][k] = None
          /\ \E k \in 1..Len(last.result[d]) : last.result[d][k] /= None

C19_Sampled(row, correction_minutes, ss) ==
    \A k \in 1..Len(row.entries) :
        is_daylight_at(row.entries[k].minutes, correction_minutes, ss)
            <=> /\ sunrise_utc_of(ss, correction_minutes) <= row.entries[k].minutes
                /\ row.entries[k].minutes <= sunset_utc_of(ss, correction_minutes)

C19_Row(row) ==
    C19_Sampled(row, correction_minutes_of(config, row.day_of_year),
                estimate_sunrise_sunset(config.latitude, row.day_of_year))

\* C19: for every sampled minute m of every day of a generated table, the
\* generator's is_daylight(m) is true iff sunrise_utc <= m <= sunset_utc,
\* the truncated UTC bounds the window's start and end are computed from,
\* whatever the fraction of a minute in the correction.
C19_DaylightInWindowFrame ==
    Generated => AllRows(C19_Row)

\* The multiples of the interval in [start_minute, end_minute].
C20_Multiples(g) ==
    { m \in g.start_minute..g.end_minute : m % config.interval_minutes = 0 }

C20_Day(g) ==
    /\ \A m \in C20_Multiples(g) :
          Cardinality({ k \in 1..Len(g.row.entries) : g.row.entries[k].minutes = m }) = 1
    /\ \A k \in 1..Len(g.row.entries) :
          /\ g.row.entries[k].minutes >= g.start_minute
          /\ g.row.entries[k].minutes <= g.end_minute
          /\ g.row.entries[k].minutes \in 0..1439

\* C20: in every day of a table generated without i32 overflow, the entry
\* minutes are exactly the multiples of interval_minutes in
\* [start_minute, end_minute]: each such multiple has exactly one entry, no
\* entry lies outside [start_minute, end_minute], and every entry minute is
\* in 0..1439.
C20_EntriesAreTheMultiplesInWindow ==
    (Generated /\ last.outcome = "ok") =>
        \A d \in 1..table.rows : C20_Day(generate_days(config, table.kind)[d])

\* The lookup returned an entry.
LookupFound == ValidDay /\ last.result.outcome = "some"

C21_Successor(found, interval_minutes, minutes) ==
    found.after /= None =>
        /\ found.before.minutes < minutes
        /\ minutes < Unwrap(found.after).minutes
        /\ Unwrap(found.after).minutes - found.before.minutes = interval_minutes
        /\ FLt(FZero, found.fraction)
        /\ FLt(found.fraction, FFromInt(1))

C21_Search(entries, interval_minutes, minutes, idx_before, found) ==
    /\ idx_before >= 0
    /\ idx_before <= Len(entries) - 1
    /\ found.before = entries[idx_before + 1]
    /\ found.before.minutes <= minutes
    /\ \A k \in 1..Len(entries) :
          entries[k].minutes <= minutes => entries[k].minutes <= found.before.minutes
    /\ C21_Successor(found, interval_minutes, minutes)

\* C21: in every lookup on a generated table that returned an entry, the
\* candidate index is at most the last valid index, the entry before is the
\* one with the greatest minute t0 <= the requested minute, and when a
\* successor is used its minute t1 satisfies t0 < minute < t1 with
\* t1 - t0 = interval_minutes, so that the fraction is strictly between 0 and
\* 1 and its divisor is not zero.
C21_BracketIsGreatestAtOrBefore ==
    LookupFound =>
        C21_Search(LookedUpRow.entries, config.interval_minutes, last.minutes,
                   idx_before_of(LookedUpRow.entries, config.interval_minutes, last.minutes),
                   Unwrap(find_bracketing_entries(LookedUpRow.entries,
                                                  config.interval_minutes, last.minutes)))

C21_Used(found) ==
    /\ found.after /= None
    /\ found.before.minutes > 0
    /\ FLt(FRatio(1, 2), found.fraction)

\* A lookup that used a successor, more than half of the way to it.
C21_Witness ==
    /\ LookupFound
    /\ C21_Used(Unwrap(find_bracketing_entries(LookedUpRow.entries,
                                               config.interval_minutes, last.minutes)))

C22_Row(row) ==
    (row.sunrise_minutes = 720 /\ row.sunset_minutes = 720) =>
        \A k \in 1..Len(row.entries) : AnglesAbsent(row.entries[k])

\* C22: in every Day Row of a generated table whose day has zero daylight
\* (sunrise = sunset = 720), no entry has an angle value present.
C22_NoAnglesInPolarNight ==
    Generated => AllRows(C22_Row)

\* The rows of day d in the two tables of the configuration: the one of the
\* generated table, and the one the other generator builds.
C23_SingleRow(d) == IF table.kind = "single_axis" THEN days(TableOf)[d]
                    ELSE generate_days(config, "single_axis")[d].row
C23_DualRow(d) == IF table.kind = "dual_axis" THEN days(TableOf)[d]
                  ELSE generate_days(config, "dual_axis")[d].row

C23_Entries(single, dual) ==
    /\ Len(single) = Len(dual)
    /\ \A k \in 1..Len(single) :
          /\ single[k].minutes = dual[k].minutes
          /\ (single[k].rotation /= None) <=> (dual[k].tilt /= None)
          /\ (single[k].rotation /= None) <=> (dual[k].panel_azimuth /= None)

C23_Rows(single, dual) ==
    /\ single.day_of_year = dual.day_of_year
    /\ single.sunrise_minutes = dual.sunrise_minutes
    /\ single.sunset_minutes = dual.sunset_minutes
    /\ C23_Entries(single.entries, dual.entries)

\* C23: for the configuration of a generated table, the single-axis and the
\* dual-axis generators give the same number of Day Rows, and row by row the
\* same sunrise and sunset, the same sequence of entry minutes, and a
\* rotation present exactly when the tilt is and exactly when the panel
\* azimuth is.
C23_SameStructure ==
    Generated =>
        /\ \A kind \in {"single_axis", "dual_axis"} :
              DOMAIN generate_days(config, kind) = 1..table.rows
        /\ \A d \in 1..table.rows : C23_Rows(C23_SingleRow(d), C23_DualRow(d))

C23_Mixed(single, dual) ==
    /\ Len(single) = Len(dual)
    /\ \E k \in 1..Len(dual) : single[k].rotation /= None /\ dual[k].tilt /= None
    /\ \E k \in 1..Len(dual) : single[k].rotation = None /\ dual[k].tilt = None

\* A generated dual-axis table with a row that has an entry with the tilt
\* present and one with it absent, as the rotation of the single-axis row.
C23_Witness ==
    /\ Generated
    /\ table.kind = "dual_axis"
    /\ \E d \in 1..table.rows : C23_Mixed(C23_SingleRow(d).entries, C23_DualRow(d).entries)

\* The daylight test of the generator applied to a minute of a row.
C24_Daylight(row, minutes) ==
    is_daylight_at(minutes, correction_minutes_of(config, row.day_of_year),
                   [sunrise |-> row.sunrise_minutes, sunset |-> row.sunset_minutes])

\* The lookup contract for a window [from, to] of the row.
C24_Contract(row, from, to, minutes, result) ==
    /\ result.outcome = "some" => result.entry.minutes = minutes
    /\ (from <= minutes /\ minutes <= to /\ ~C24_Daylight(row, minutes)) =>
          result.outcome = "some" /\ AnglesAbsent(result.entry)
    /\ result = NotFound =>
          Len(row.entries) = 0 \/ minutes < from \/ minutes > to

C24_InWindow(g, minutes, result) ==
    C24_Contract(g.row, g.start_minute, g.end_minute, minutes, result)

C24_InEntries(row, minutes, result) ==
    IF Len(row.entries) = 0
    THEN result = NotFound
    ELSE C24_Contract(row, row.entries[1].minutes,
                      row.entries[Len(row.entries)].minutes, minutes, result)

C24_Buffer(row, minutes, result) ==
    /\ Len(row.entries) >= 2
    /\ row.entries[1].minutes < minutes
    /\ minutes < row.entries[2].minutes
    /\ ~C24_Daylight(row, minutes)
    /\ AnglesPresent(row.entries[2])
    /\ result.outcome = "some"
    /\ result.entry.minutes = minutes
    /\ AnglesAbsent(result.entry)

====
